---- MODULE Spec2Model ----
(***************************************************************************)
(* A model of armi.nucDirectory: the Element and Nuclide classes, the      *)
(* ChartOfTheNuclides container (chart.py), the module-level indices of    *)
(* nuclideBases.py, the one-time burn-chain imposition and the burn-chain  *)
(* closure initReachableActiveNuclidesThroughBurnChain.                    *)
(*                                                                         *)
(* Python objects live in two heaps (elemHeap, nucHeap); an object is its  *)
(* index in the heap, so object identity is index equality.  Python        *)
(* strings are sequences of one-character strings.  A dict is a function   *)
(* whose DOMAIN is its key set.                                            *)
(***************************************************************************)
EXTENDS Integers, Sequences, FiniteSets, TLC

VARIABLES
    elemHeap,               \* every Element object constructed so far
    nucHeap,                \* every Nuclide object constructed so far
    chart,                  \* chart.chart, the ChartOfTheNuclides instance
    instances,              \* nuclideBases.instances
    byName,                 \* nuclideBases.byName
    byDBName,               \* nuclideBases.byDBName
    byLabel,                \* nuclideBases.byLabel
    byMccId,                \* nuclideBases.byMccId
    byMcnpId,               \* nuclideBases.byMcnpId
    byAAAZZZSId,            \* nuclideBases.byAAAZZZSId
    _burnChainImposed,      \* nuclideBases._burnChainImposed
    numberDensityDict,      \* closure: the caller's composition mapping
    activeNuclides,         \* closure: the active set
    missingActiveNuclides,  \* closure: local set of unresolved groups
    memo,                   \* closure: local visited set
    difference,             \* closure: local pending set
    pc,                     \* closure: position in the function body
    startDict,              \* closure: the composition as passed in (history)
    ret                     \* outcome of the operation that ran last

vars == <<elemHeap, nucHeap, chart, instances, byName, byDBName, byLabel,
          byMccId, byMcnpId, byAAAZZZSId, _burnChainImposed,
          numberDensityDict, activeNuclides, missingActiveNuclides, memo,
          difference, pc, startDict, ret>>

chartVars == <<elemHeap, nucHeap, chart, instances, byName, byDBName,
               byLabel, byMccId, byMcnpId, byAAAZZZSId>>

closureVars == <<numberDensityDict, activeNuclides, missingActiveNuclides,
                 memo, difference, pc, startDict>>

(***************************************************************************)
(* Bounds of the model.                                                    *)
(***************************************************************************)
MaxElems == 8       \* Element objects that may exist
MaxFreeElems == 1   \* of them, constructed outside a ChartOfTheNuclides
MaxNucs == 2        \* Nuclide objects a client may construct
MaxExcess == 0      \* a weight is A .. A + MaxExcess
MaxAbundance == 1   \* an abundance is 0 .. MaxAbundance

(***************************************************************************)
(* Python values.                                                          *)
(***************************************************************************)
\* None where an int is expected (z) and where an object is expected
\* (element, standardWeight).  Object ids start at 1.
NoneInt == -1
NoneRef == 0
\* None and the Auto class where a str is expected: one-element sequences
\* whose element is no character.
NoneStr == <<"<None>">>
Auto == <<"<Auto>">>
EmptyDict == <<>>
NoWeight == [num |-> 0, den |-> 0]

DictSet(d, k, v) == [x \in (DOMAIN d) \cup {k} |-> IF x = k THEN v ELSE d[x]]

Digits == <<"0", "1", "2", "3", "4", "5", "6", "7", "8", "9">>
UpperCase == <<"A", "B", "C", "D", "E", "F", "G", "H", "I", "J", "K", "L", "M",
               "N", "O", "P", "Q", "R", "S", "T", "U", "V", "W", "X", "Y", "Z">>
LowerCase == <<"a", "b", "c", "d", "e", "f", "g", "h", "i", "j", "k", "l", "m",
               "n", "o", "p", "q", "r", "s", "t", "u", "v", "w", "x", "y", "z">>

\* str(n) / "{}".format(n) for n >= 0
RECURSIVE Str(_)
Str(n) == IF n < 10 THEN <<Digits[n + 1]>>
          ELSE Str(n \div 10) \o <<Digits[(n % 10) + 1]>>

\* "{:0>w}": s padded on the left with zeros to width w
RECURSIVE ZeroPad(_, _)
ZeroPad(s, w) == IF Len(s) >= w THEN s ELSE ZeroPad(<<"0">> \o s, w)

\* "{:_<w}": s padded on the right with underscores to width w
RECURSIVE UnderscorePad(_, _)
UnderscorePad(s, w) == IF Len(s) >= w THEN s ELSE UnderscorePad(s \o <<"_">>, w)

\* str.upper() and str.lower() of one character
upper(c) == IF \E i \in 1..26 : LowerCase[i] = c
            THEN UpperCase[CHOOSE i \in 1..26 : LowerCase[i] = c] ELSE c
lower(c) == IF \E i \in 1..26 : UpperCase[i] = c
            THEN LowerCase[CHOOSE i \in 1..26 : UpperCase[i] = c] ELSE c

\* str.capitalize(): first character upper-cased, the rest lower-cased
capitalize(s) == [i \in 1..Len(s) |-> IF i = 1 THEN upper(s[i]) ELSE lower(s[i])]

\* Python truthiness of a str-or-None and of an int-or-None
TruthyStr(s) == s # NoneStr /\ s # <<>>
TruthyInt(n) == n # NoneInt /\ n # 0

(***************************************************************************)
(* chart.Element                                                           *)
(***************************************************************************)
\* Element.__init__
Element(z, symbol, name) ==
    [z |-> z, symbol |-> symbol, name |-> name,
     standardWeight |-> NoWeight, isotopes |-> {}]

\* Element.__eq__ (its __hash__ is hash(name), which equal elements share)
ElementEq(e1, e2) ==
    e1.z = e2.z /\ e1.symbol = e2.symbol /\ e1.name = e2.name

\* Element.__hash__
ElementHash(e) == e.name

\* set.add on a set of Element objects: an element equal to one already in
\* the set is not inserted, the set keeps the object it holds
ElementSetAdd(S, eh, e) ==
    IF \E x \in S : ElementEq(eh[x], eh[e]) THEN S ELSE S \cup {e}

RECURSIVE SumAbundance(_, _)
SumAbundance(nh, S) ==
    IF S = {} THEN 0
    ELSE LET n == CHOOSE n \in S : TRUE
         IN nh[n].abundance + SumAbundance(nh, S \ {n})

RECURSIVE SumWeightAbundance(_, _)
SumWeightAbundance(nh, S) ==
    IF S = {} THEN 0
    ELSE LET n == CHOOSE n \in S : TRUE
         IN nh[n].weight * nh[n].abundance + SumWeightAbundance(nh, S \ {n})

\* Element.updateWeight: the new value of the element object.  The quotient
\* is kept as the exact fraction num/den.
updateWeight(nh, el) ==
    LET totalAbundance == SumAbundance(nh, el.isotopes)
    IN IF totalAbundance > 0
       THEN [el EXCEPT !.standardWeight =
                [num |-> SumWeightAbundance(nh, el.isotopes),
                 den |-> totalAbundance]]
       ELSE el

\* Element.append
ElementAppend(el, n) == [el EXCEPT !.isotopes = @ \cup {n}]

(***************************************************************************)
(* nuclides.Nuclide                                                        *)
(***************************************************************************)
\* Nuclide._createName
_createName(element, a, state) ==
    LET metaChar == << <<>>, <<"M">> >>
    IN element.symbol \o Str(a) \o metaChar[state + 1]

\* 10 ** n
RECURSIVE Pow10(_)
Pow10(n) == IF n = 0 THEN 1 ELSE 10 * Pow10(n - 1)

\* _createLabel as it would be with the last character that of the ground state
_createLabel_groundDigit(element, a, state) ==
    LET firstTwoDigits == (a % Pow10(4 - Len(element.symbol))) \div 10
    IN element.symbol \o Str(firstTwoDigits) \o <<Digits[(a % 10) + 1]>>

\* _createLabel as it would be with the digits of a before the last all kept
_createLabel_allDigits(element, a, state) ==
    LET lastDigit == (Digits \o SubSeq(UpperCase, 1, 10))[(a % 10) + state * 10 + 1]
    IN element.symbol \o Str(a \div 10) \o <<lastDigit>>

\* Nuclide._createLabel
_createLabel(element, a, state) ==
    LET firstTwoDigits == (a % Pow10(4 - Len(element.symbol))) \div 10
        lastDigit == (Digits \o SubSeq(UpperCase, 1, 10))[(a % 10) + state * 10 + 1]
    IN element.symbol \o Str(firstTwoDigits) \o <<lastDigit>>

\* Nuclide.__hash__
NuclideHash(nuc) == <<nuc.a, nuc.z, nuc.state>>

\* n1 == n2 of two Nuclide objects: the class defines no __eq__, so this is
\* object.__eq__, the identity of the objects
NuclideEq(n1, n2) == n1 = n2

\* Nuclide.getDatabaseName
getDatabaseName(nuc) == <<"n">> \o capitalize(nuc.name)

\* Nuclide.__init__: [raised |-> the exception raised ("" for none),
\* obj |-> the constructed object].  element is an Element object or NoneRef,
\* z an int or NoneInt, name and label a str or Auto.
NuclideInit(eh, element, z, a, state, weight, abundance, name, label, mc2id) ==
    LET elementIsNone == element = NoneRef
        zIsNone == z = NoneInt
        needsElement == ~TruthyInt(z) \/ name = Auto \/ label = Auto
        el == eh[element]
    IN IF ~(elementIsNone # zIsNone)
       THEN [raised |-> "ValueError"]
       ELSE IF needsElement /\ elementIsNone
       THEN [raised |-> "AttributeError"]
       ELSE [raised |-> "",
             obj |-> [z |-> IF TruthyInt(z) THEN z ELSE el.z,
                      a |-> a,
                      state |-> state,
                      decays |-> <<>>,
                      trans |-> <<>>,
                      weight |-> weight,
                      abundance |-> abundance,
                      name |-> IF name # Auto THEN name
                               ELSE _createName(el, a, state),
                      label |-> IF label # Auto THEN label
                                ELSE _createLabel(el, a, state),
                      element |-> element,
                      mc2id |-> mc2id,
                      nuSF |-> 0]]

\* Nuclide.getMcc3Id reads self.element.symbol: AttributeError without element
getMcc3IdRaises(nuc) == nuc.element = NoneRef

\* getMcc3Id as it would be with a % 100 for the ground state too
getMcc3Id_lastTwoDigits(eh, nuc) ==
    LET symbol == eh[nuc.element].symbol
        base == IF nuc.state > 0
                THEN symbol \o Str(nuc.a % 100) \o <<"M">>
                ELSE symbol \o Str(nuc.a % 100)
    IN UnderscorePad(base, 5) \o <<"7">>

\* Nuclide.getMcc3Id
getMcc3Id(eh, nuc) ==
    LET symbol == eh[nuc.element].symbol
        base == IF nuc.state > 0
                THEN symbol \o Str(nuc.a % 100) \o <<"M">>
                ELSE symbol \o Str(nuc.a)
    IN UnderscorePad(base, 5) \o <<"7">>

\* getMcnpId as it would be without the rules of Am242
getMcnpId_noAm242(nuc) ==
    LET a == IF nuc.state > 0 THEN nuc.a + 300 + 100 * nuc.state ELSE nuc.a
    IN Str(nuc.z) \o ZeroPad(Str(a), 3)

\* Nuclide.getMcnpId
getMcnpId(nuc) ==
    LET z == nuc.z
        a == IF z = 95 /\ nuc.a = 242
             THEN IF nuc.state # 1
                  THEN nuc.a + 300
                       + 100 * (IF nuc.state > 1 THEN nuc.state ELSE 1)
                  ELSE nuc.a
             ELSE IF nuc.state > 0
                  THEN nuc.a + 300 + 100 * nuc.state
                  ELSE nuc.a
    IN Str(z) \o ZeroPad(Str(a), 3)

\* Nuclide.getAAAZZZSId
getAAAZZZSId(nuc) ==
    LET aaa == Str(nuc.a)
        zzz == ZeroPad(Str(nuc.z), 3)
        s == IF nuc.state > 0 THEN <<"1">> ELSE <<"0">>
    IN aaa \o zzz \o s

\* DummyNuclideBase.__init__: "DMP" + name[4] is evaluated first, then
\* Nuclide.__init__ is called with element None and z, a and state 0
DummyNuclideBase(eh, name, mc2id, weight) ==
    IF Len(name) < 5
    THEN [raised |-> "IndexError"]
    ELSE NuclideInit(eh, NoneRef, 0, 0, 0, weight, 0, name,
                     <<"D", "M", "P">> \o <<name[5]>>, mc2id)

(***************************************************************************)
(* chart.ChartOfTheNuclides.Elements                                       *)
(***************************************************************************)
\* the four attributes Elements.__init__ creates, before the file is read
EmptyElements ==
    [byZ |-> EmptyDict, byName |-> EmptyDict, bySymbol |-> EmptyDict,
     _elements |-> {}]

\* Elements.add
Elements_add(reg, eh, e) ==
    [_elements |-> ElementSetAdd(reg._elements, eh, e),
     byZ |-> DictSet(reg.byZ, eh[e].z, e),
     byName |-> DictSet(reg.byName, eh[e].name, e),
     bySymbol |-> DictSet(reg.bySymbol, eh[e].symbol, e)]

\* the lines of elements.dat the model reads: z, symbol and name as written
ElementsDat ==
    << [z |-> 92, sym |-> <<"U">>,
        name |-> <<"U", "r", "a", "n", "i", "u", "m">>],
       [z |-> 94, sym |-> <<"P", "u">>,
        name |-> <<"P", "l", "u", "t", "o", "n", "i", "u", "m">>] >>

\* the loop over the lines of elements.dat (in Elements.__init__ and again in
\* ChartOfTheNuclides.__init__): every line constructs a new Element object
\* and adds it.  [reg |-> the registry, eh |-> the heap] after lines i..end.
ReadLine ==
    [i \in 1..Len(ElementsDat) |->
        LET lineData == ElementsDat[i]
            z == lineData.z
            sym == [k \in 1..Len(lineData.sym) |-> upper(lineData.sym[k])]
            name == [k \in 1..Len(lineData.name) |-> lower(lineData.name[k])]
        IN Element(z, sym, name)]

RECURSIVE ReadElementsDat(_, _, _)
ReadElementsDat(reg, eh, i) ==
    IF i > Len(ElementsDat) THEN [reg |-> reg, eh |-> eh]
    ELSE ReadElementsDat(Elements_add(reg, Append(eh, ReadLine[i]), Len(eh) + 1),
                         Append(eh, ReadLine[i]), i + 1)

\* Elements.setIsotopics: [raised, eh] after the loop over nuclides[i..];
\* a KeyError leaves the nuclides before it attached
RECURSIVE Elements_setIsotopics(_, _, _, _, _)
Elements_setIsotopics(reg, eh, nh, nuclides, i) ==
    IF i > Len(nuclides) THEN [raised |-> "", eh |-> eh]
    ELSE LET nuc == nuclides[i]
             z == nh[nuc].z
         IN IF z \notin DOMAIN reg.byZ
            THEN [raised |-> "KeyError", eh |-> eh]
            ELSE Elements_setIsotopics(
                     reg,
                     [eh EXCEPT ![reg.byZ[z]] = ElementAppend(@, nuc)],
                     nh, nuclides, i + 1)

(***************************************************************************)
(* chart.ChartOfTheNuclides.Nuclides                                       *)
(***************************************************************************)
\* Nuclides.__init__.  byDbName is split by the type of its keys: str keys
\* and bound-method keys (a bound method is identified by the object it is
\* bound to).
EmptyNuclides ==
    [_nuclides |-> {}, byName |-> EmptyDict,
     byDbName |-> [str |-> EmptyDict, method |-> EmptyDict],
     byLabel |-> EmptyDict]

\* Nuclides.add: Nuclide defines __hash__ and no __eq__, so membership in
\* the set _nuclides is object identity
Nuclides_add(reg, nh, nuclide) ==
    IF nuclide \in reg._nuclides
    THEN [raised |-> "ValueError", reg |-> reg]
    ELSE [raised |-> "",
          reg |-> [_nuclides |-> reg._nuclides \cup {nuclide},
                   byName |-> DictSet(reg.byName, nh[nuclide].name, nuclide),
                   byDbName |-> [reg.byDbName EXCEPT
                                    !.method = DictSet(@, nuclide, nuclide)],
                   byLabel |-> DictSet(reg.byLabel, nh[nuclide].label, nuclide)]]

\* Nuclides.update(other), other a list of nuclides: each iteration calls
\* self.add(other), and "other in self._nuclides" hashes the list, which
\* raises TypeError (so does a set; a tuple or a Nuclides object is hashable,
\* enters _nuclides, and other.name raises AttributeError)
Nuclides_update(reg, nh, other) ==
    IF other = <<>>
    THEN [raised |-> "", reg |-> reg]
    ELSE [raised |-> "TypeError", reg |-> reg]

\* the loop "for nuclide in nuclides: self.nuclides.add(nuclide)"
RECURSIVE AddAll(_, _, _, _)
AddAll(reg, nh, nuclides, i) ==
    IF i > Len(nuclides) THEN [raised |-> "", reg |-> reg]
    ELSE LET r == Nuclides_add(reg, nh, nuclides[i])
         IN IF r.raised # "" THEN r ELSE AddAll(r.reg, nh, nuclides, i + 1)

\* the predicates handed to where and single: lambda nb: nb.<field> == value
Predicate(p, nuc) ==
    CASE p.field = "z" -> nuc.z = p.value
      [] p.field = "a" -> nuc.a = p.value

\* Nuclides.where: the nuclides the generator yields (in no fixed order)
Nuclides_where(reg, nh, p) == {nuc \in reg._nuclides : Predicate(p, nh[nuc])}

\* Nuclides.single as it would be if it raised on no match only
Nuclides_single_first(reg, nh, p) ==
    LET matches == {nuc \in reg._nuclides : Predicate(p, nh[nuc])}
    IN IF matches = {}
       THEN [raised |-> "ValueError", matches |-> matches, value |-> NoneRef]
       ELSE [raised |-> "", matches |-> matches,
             value |-> CHOOSE nuc \in matches : TRUE]

\* Nuclides.single
Nuclides_single(reg, nh, p) ==
    LET matches == {nuc \in reg._nuclides : Predicate(p, nh[nuc])}
    IN IF Cardinality(matches) # 1
       THEN [raised |-> "ValueError", matches |-> matches, value |-> NoneRef]
       ELSE [raised |-> "", matches |-> matches,
             value |-> CHOOSE nuc \in matches : TRUE]

(***************************************************************************)
(* chart.ChartOfTheNuclides                                                *)
(***************************************************************************)
\* the loop "for element in self.elements: element.updateWeight()"
UpdateWeights(eh, nh, S) ==
    [e \in DOMAIN eh |-> IF e \in S THEN updateWeight(nh, eh[e]) ELSE eh[e]]

\* ChartOfTheNuclides._connectElements: [raised, eh]
_connectElements(ch, eh, nh) ==
    IF \E nuc \in ch.nuclides._nuclides : nh[nuc].z \notin DOMAIN ch.elements.byZ
    THEN [raised |-> "KeyError", eh |-> eh]
    ELSE LET attached ==
                 [e \in DOMAIN eh |->
                     [eh[e] EXCEPT !.isotopes = @ \cup
                         {nuc \in ch.nuclides._nuclides :
                             ch.elements.byZ[nh[nuc].z] = e}]]
         IN [raised |-> "",
             eh |-> UpdateWeights(attached, nh, ch.elements._elements)]

\* ChartOfTheNuclides.__init__: [raised, chart, eh]
ChartOfTheNuclides(eh, nh, nuclides) ==
    LET Connect(ch, eh2) ==
            LET Done(connected) ==
                    IF connected.raised # "" THEN [raised |-> connected.raised]
                    ELSE [raised |-> "", chart |-> ch, eh |-> connected.eh]
            IN Done(_connectElements(ch, eh2, nh))
        AddNuclides(second) ==
            LET Added(added) ==
                    IF added.raised # "" THEN [raised |-> added.raised]
                    ELSE Connect([built |-> TRUE, nuclides |-> added.reg,
                                  elements |-> second.reg], second.eh)
            IN Added(AddAll(EmptyNuclides, nh, nuclides, 1))
        ReadAgain(first) == AddNuclides(ReadElementsDat(first.reg, first.eh, 1))
    IN ReadAgain(ReadElementsDat(EmptyElements, eh, 1))

(***************************************************************************)
(* The outcome of the operation that ran last: its name, the exception it  *)
(* raised ("" for none), the object it was applied to or returned, the     *)
(* nuclides it matched, its predicate, whether it logged a warning, and    *)
(* the groups its error message lists.                                     *)
(***************************************************************************)
NoPredicate == [field |-> "", value |-> 0]

\* the element, z, name and label a Nuclide was constructed with
NoArgs == [element |-> NoneRef, z |-> NoneInt, name |-> <<>>, label |-> <<>>]

NoRet == [op |-> "", raised |-> "", n |-> NoneRef, matches |-> {},
          p |-> NoPredicate, warned |-> FALSE, groups |-> {},
          args |-> NoArgs, value |-> NoneStr, burnInfo |-> <<>>,
          other |-> <<>>, burnData |-> <<>>]

Returned(op, raised, n) == [NoRet EXCEPT !.op = op, !.raised = raised, !.n = n]

(***************************************************************************)
(* The state when the module nuclideBases has been imported and nothing    *)
(* has been constructed.                                                   *)
(***************************************************************************)
NoChart == [built |-> FALSE, nuclides |-> EmptyNuclides, elements |-> EmptyElements]

InitIndices ==
    /\ instances = <<>>
    /\ byName = EmptyDict
    /\ byDBName = EmptyDict
    /\ byLabel = EmptyDict
    /\ byMccId = EmptyDict
    /\ byMcnpId = EmptyDict
    /\ byAAAZZZSId = EmptyDict
    /\ _burnChainImposed = FALSE

InitClosure ==
    /\ numberDensityDict = EmptyDict
    /\ activeNuclides = {}
    /\ missingActiveNuclides = {}
    /\ memo = {}
    /\ difference = {}
    /\ pc = "idle"
    /\ startDict = EmptyDict

\* chart.factory(): chart = ChartOfTheNuclides([])
factory == ChartOfTheNuclides(<<>>, <<>>, <<>>)

\* the state after chart.factory()
InitChart ==
    /\ elemHeap = factory.eh
    /\ nucHeap = <<>>
    /\ chart = factory.chart
    /\ InitIndices
    /\ InitClosure
    /\ ret = NoRet

(***************************************************************************)
(* The arguments the operations are called with.                           *)
(***************************************************************************)
Uranium == <<"u", "r", "a", "n", "i", "u", "m">>
Xenon == <<"x", "e", "n", "o", "n">>

\* Element(z, symbol, name): equal to the first line of elements.dat in
\* every key, in z only, in the symbol only, in the name only
ElementArgs ==
    {<<92, <<"U">>, Uranium>>, <<92, <<"X", "E">>, Xenon>>,
     <<54, <<"U">>, Xenon>>, <<54, <<"X", "E">>, Uranium>>}

MassNumbers == {235, 239}

\* name and label: both derived, the name given, both given
NameAndLabelArgs == {<<Auto, Auto>>, <<<<"X">>, Auto>>, <<<<"X">>, <<"X", "L">>>>}

\* lists of at most MaxNucs of the n existing Nuclide objects
NuclideLists(n) == UNION {[1..k -> 1..n] : k \in 0..MaxNucs}

Predicates == {[field |-> "a", value |-> 235], [field |-> "z", value |-> 92]}

\* the elements a client finds through elements.bySymbol
RegisteredElements == {chart.elements.bySymbol[k] : k \in DOMAIN chart.elements.bySymbol}

FreeElems == Len(elemHeap) - 2 * Len(ElementsDat)

(***************************************************************************)
(* Operations on the chart.                                                *)
(***************************************************************************)
\* Element(z, symbol, name) called by a client
NewElement(z, symbol, name) ==
    /\ Len(elemHeap) < MaxElems
    /\ FreeElems < MaxFreeElems
    /\ elemHeap' = Append(elemHeap, Element(z, symbol, name))
    /\ ret' = Returned("Element", "", Len(elemHeap) + 1)
    /\ UNCHANGED <<nucHeap, chart, instances, byName, byDBName, byLabel,
                   byMccId, byMcnpId, byAAAZZZSId, _burnChainImposed>>
    /\ UNCHANGED closureVars

\* Nuclide(element, z, a, state, weight, abundance, name, label, mc2id)
NewNuclide(element, z, a, state, weight, abundance, name, label, mc2id) ==
    /\ Len(nucHeap) < MaxNucs
    /\ \E r \in {NuclideInit(elemHeap, element, z, a, state, weight, abundance,
                            name, label, mc2id)} :
          IF r.raised # ""
          THEN /\ ret' = [Returned("Nuclide", r.raised, NoneRef) EXCEPT
                             !.args = [element |-> element, z |-> z,
                                       name |-> name, label |-> label]]
               /\ UNCHANGED nucHeap
          ELSE /\ nucHeap' = Append(nucHeap, r.obj)
               /\ ret' = [Returned("Nuclide", "", Len(nucHeap) + 1) EXCEPT
                             !.args = [element |-> element, z |-> z,
                                       name |-> name, label |-> label]]
    /\ UNCHANGED <<elemHeap, chart, instances, byName, byDBName, byLabel,
                   byMccId, byMcnpId, byAAAZZZSId, _burnChainImposed>>
    /\ UNCHANGED closureVars

\* DummyNuclideBase(name, mc2id, weight)
NewDummy(name, mc2id, weight) ==
    /\ Len(nucHeap) < MaxNucs
    /\ \E r \in {DummyNuclideBase(elemHeap, name, mc2id, weight)} :
          IF r.raised # ""
          THEN /\ ret' = [Returned("DummyNuclideBase", r.raised, NoneRef) EXCEPT
                             !.args = [element |-> NoneRef, z |-> 0, name |-> name,
                                       label |-> IF Len(name) < 5 THEN <<>>
                                                 ELSE <<"D", "M", "P", name[5]>>]]
               /\ UNCHANGED nucHeap
          ELSE /\ nucHeap' = Append(nucHeap, r.obj)
               /\ ret' = [Returned("DummyNuclideBase", "", Len(nucHeap) + 1) EXCEPT
                             !.args = [element |-> NoneRef, z |-> 0, name |-> name,
                                       label |-> <<"D", "M", "P", name[5]>>]]
    /\ UNCHANGED <<elemHeap, chart, instances, byName, byDBName, byLabel,
                   byMccId, byMcnpId, byAAAZZZSId, _burnChainImposed>>
    /\ UNCHANGED closureVars

\* chart = ChartOfTheNuclides(nuclides).  When the constructor raises, no
\* new chart is bound and the Element objects it made are unreachable.
ChartInit(nuclides) ==
    /\ Len(elemHeap) + 2 * Len(ElementsDat) <= MaxElems
    /\ \E r \in {ChartOfTheNuclides(elemHeap, nucHeap, nuclides)} :
          IF r.raised # ""
          THEN /\ ret' = Returned("ChartOfTheNuclides", r.raised, NoneRef)
               /\ UNCHANGED <<chart, elemHeap>>
          ELSE /\ chart' = r.chart
               /\ elemHeap' = r.eh
               /\ ret' = Returned("ChartOfTheNuclides", "", NoneRef)
    /\ UNCHANGED <<nucHeap, instances, byName, byDBName, byLabel,
                   byMccId, byMcnpId, byAAAZZZSId, _burnChainImposed>>
    /\ UNCHANGED closureVars

\* chart.elements.add(element)
ElementsAdd(element) ==
    /\ chart' = [chart EXCEPT !.elements = Elements_add(@, elemHeap, element)]
    /\ ret' = Returned("Elements.add", "", element)
    /\ UNCHANGED <<elemHeap, nucHeap, instances, byName, byDBName, byLabel,
                   byMccId, byMcnpId, byAAAZZZSId, _burnChainImposed>>
    /\ UNCHANGED closureVars

\* chart.elements.setIsotopics(nuclides)
SetIsotopics(nuclides) ==
    /\ \E r \in {Elements_setIsotopics(chart.elements, elemHeap, nucHeap,
                                       nuclides, 1)} :
          /\ elemHeap' = r.eh
          /\ ret' = Returned("Elements.setIsotopics", r.raised, NoneRef)
    /\ UNCHANGED <<nucHeap, chart, instances, byName, byDBName, byLabel,
                   byMccId, byMcnpId, byAAAZZZSId, _burnChainImposed>>
    /\ UNCHANGED closureVars

\* chart.nuclides.add(nuclide)
NuclidesAdd(nuclide) ==
    /\ \E r \in {Nuclides_add(chart.nuclides, nucHeap, nuclide)} :
          /\ chart' = [chart EXCEPT !.nuclides = r.reg]
          /\ ret' = Returned("Nuclides.add", r.raised, nuclide)
    /\ UNCHANGED <<elemHeap, nucHeap, instances, byName, byDBName, byLabel,
                   byMccId, byMcnpId, byAAAZZZSId, _burnChainImposed>>
    /\ UNCHANGED closureVars

\* chart.nuclides.update(other)
NuclidesUpdate(other) ==
    /\ \E r \in {Nuclides_update(chart.nuclides, nucHeap, other)} :
          /\ chart' = [chart EXCEPT !.nuclides = r.reg]
          /\ ret' = [Returned("Nuclides.update", r.raised, NoneRef)
                       EXCEPT !.other = other]
    /\ UNCHANGED <<elemHeap, nucHeap, instances, byName, byDBName, byLabel,
                   byMccId, byMcnpId, byAAAZZZSId, _burnChainImposed>>
    /\ UNCHANGED closureVars

\* list(chart.nuclides.where(predicate))
Where(p) ==
    /\ ret' = [NoRet EXCEPT !.op = "Nuclides.where", !.p = p,
                  !.matches = Nuclides_where(chart.nuclides, nucHeap, p)]
    /\ UNCHANGED chartVars
    /\ UNCHANGED _burnChainImposed
    /\ UNCHANGED closureVars

\* chart.nuclides.single(predicate)
Single(p) ==
    /\ \E r \in {Nuclides_single(chart.nuclides, nucHeap, p)} :
          ret' = [NoRet EXCEPT !.op = "Nuclides.single", !.p = p,
                     !.raised = r.raised, !.n = r.value, !.matches = r.matches]
    /\ UNCHANGED chartVars
    /\ UNCHANGED _burnChainImposed
    /\ UNCHANGED closureVars

(***************************************************************************)
(* SpecChart: clients construct nuclides from the registered elements and  *)
(* add them to the Nuclide registry of the chart, and query it.            *)
(***************************************************************************)
ChartNewNuclide ==
    \E element \in RegisteredElements \cup {NoneRef}, z \in {NoneInt, 0, 92},
       a \in MassNumbers, names \in NameAndLabelArgs :
        NewNuclide(element, z, a, 0, a, 0, names[1], names[2], NoneStr)

NextChart ==
    \/ ChartNewNuclide
    \/ \E nuclide \in 1..Len(nucHeap) : NuclidesAdd(nuclide)
    \/ \E other \in NuclideLists(Len(nucHeap)) : NuclidesUpdate(other)
    \/ \E p \in Predicates : Where(p)
    \/ \E p \in Predicates : Single(p)

SpecChart == InitChart /\ [][NextChart]_vars

(***************************************************************************)
(* SpecElements: clients construct elements and add them to the Element    *)
(* registry of the chart.                                                  *)
(***************************************************************************)
NextElements ==
    \/ \E args \in ElementArgs : NewElement(args[1], args[2], args[3])
    \/ \E element \in 1..Len(elemHeap) : ElementsAdd(element)

SpecElements == InitChart /\ [][NextElements]_vars

(***************************************************************************)
(* SpecBuild: nuclides are constructed from the registered elements, a     *)
(* chart is built from them, and isotopes are attached afterwards.         *)
(***************************************************************************)
BuildNewNuclide ==
    \E element \in RegisteredElements \cup {NoneRef}, z \in {NoneInt, 92},
       a \in MassNumbers, d \in 0..MaxExcess, abundance \in 0..MaxAbundance :
        NewNuclide(element, z, a, 0, a + d, abundance,
                   IF element = NoneRef THEN <<"X">> ELSE Auto,
                   IF element = NoneRef THEN <<"X", "L">> ELSE Auto, NoneStr)

NextBuild ==
    \/ BuildNewNuclide
    \/ \E nuclides \in NuclideLists(Len(nucHeap)) : ChartInit(nuclides)
    \/ \E nuclides \in NuclideLists(Len(nucHeap)) : SetIsotopics(nuclides)

SpecBuild == InitChart /\ [][NextBuild]_vars

(***************************************************************************)
(* The module-level indices of nuclideBases.py.                            *)
(***************************************************************************)
EmptyIndices ==
    [instances |-> <<>>, byName |-> EmptyDict, byDBName |-> EmptyDict,
     byLabel |-> EmptyDict, byMccId |-> EmptyDict, byMcnpId |-> EmptyDict,
     byAAAZZZSId |-> EmptyDict]

Indices ==
    [instances |-> instances, byName |-> byName, byDBName |-> byDBName,
     byLabel |-> byLabel, byMccId |-> byMccId, byMcnpId |-> byMcnpId,
     byAAAZZZSId |-> byAAAZZZSId]

\* _addNuclideToIndices: [raised, idx].  getMcc3Id raises AttributeError for
\* a nuclide without element, after the first four containers are written.
_addNuclideToIndices(idx, eh, nh, n) ==
    LET nuc == nh[n]
        first == [idx EXCEPT
                    !.instances = Append(@, n),
                    !.byName = DictSet(@, nuc.name, n),
                    !.byDBName = DictSet(@, getDatabaseName(nuc), n),
                    !.byLabel = DictSet(@, nuc.label, n),
                    !.byMccId = IF TruthyStr(nuc.mc2id)
                                THEN DictSet(@, nuc.mc2id, n) ELSE @]
    IN IF getMcc3IdRaises(nuc)
       THEN [raised |-> "AttributeError", idx |-> first]
       ELSE [raised |-> "",
             idx |-> [first EXCEPT
                        !.byMccId = DictSet(@, getMcc3Id(eh, nuc), n),
                        !.byMcnpId = DictSet(@, getMcnpId(nuc), n),
                        !.byAAAZZZSId = DictSet(@, getAAAZZZSId(nuc), n)]]

\* _renormalizeElementRelationship, with elements.byZ the byZ of the chart
\* (chart.factory binds it): [raised, eh, nh] after instances[i..]
RECURSIVE _renormalizeElementRelationship(_, _, _, _, _)
_renormalizeElementRelationship(insts, elementsByZ, eh, nh, i) ==
    IF i > Len(insts) THEN [raised |-> "", eh |-> eh, nh |-> nh]
    ELSE LET nuc == insts[i]
         IN IF nh[nuc].element = NoneRef
            THEN _renormalizeElementRelationship(insts, elementsByZ, eh, nh, i + 1)
            ELSE IF nh[nuc].z \notin DOMAIN elementsByZ
            THEN [raised |-> "KeyError", eh |-> eh, nh |-> nh]
            ELSE _renormalizeElementRelationship(
                     insts, elementsByZ,
                     [eh EXCEPT ![elementsByZ[nh[nuc].z]] = ElementAppend(@, nuc)],
                     [nh EXCEPT ![nuc].element = elementsByZ[nh[nuc].z]],
                     i + 1)

(***************************************************************************)
(* Burn-chain data.  A record of the burn data (nuclideBurnCategory) is a  *)
(* dict, kept as the sequence of its items [key, products, value]; the     *)
(* burn data is the sequence of its items [nucName, burnInfo].             *)
(***************************************************************************)
TRANSMUTATION == "transmutation"
DECAY == "decay"
SPONTANEOUS_FISSION == "nuSF"

\* transmutations.Transmutation(parent, dataDict)
Transmutation(parent, item) ==
    [type |-> TRANSMUTATION, productNuclides |-> item.products]

\* transmutations.DecayMode(parent, dataDict)
DecayMode(parent, item) ==
    [type |-> DECAY, productNuclides |-> item.products]

\* Nuclide._processBurnData, the loop over burnInfo[i..]: [raised, obj]
RECURSIVE ProcessBurnInfo(_, _, _, _)
ProcessBurnInfo(self, nuc, burnInfo, i) ==
    IF i > Len(burnInfo) THEN [raised |-> "", obj |-> nuc]
    ELSE LET nuclideBurnCategory == burnInfo[i]
             nuclideBurnType == nuclideBurnCategory[1].key
         IN IF Len(nuclideBurnCategory) > 1
            THEN [raised |-> "ValueError", obj |-> nuc]
            ELSE IF Len(nuclideBurnCategory) = 0
            THEN [raised |-> "IndexError", obj |-> nuc]
            ELSE IF nuclideBurnType = TRANSMUTATION
            THEN ProcessBurnInfo(self,
                     [nuc EXCEPT !.trans =
                         Append(@, Transmutation(self, nuclideBurnCategory[1]))],
                     burnInfo, i + 1)
            ELSE IF nuclideBurnType = DECAY
            THEN ProcessBurnInfo(self,
                     [nuc EXCEPT !.decays =
                         Append(@, DecayMode(self, nuclideBurnCategory[1]))],
                     burnInfo, i + 1)
            ELSE IF nuclideBurnType = SPONTANEOUS_FISSION
            THEN ProcessBurnInfo(self,
                     [nuc EXCEPT !.nuSF = nuclideBurnCategory[1].value],
                     burnInfo, i + 1)
            ELSE [raised |-> "Exception", obj |-> nuc]

\* _processBurnData as it would be with the lists not cleared first
_processBurnData_extends(self, nuc, burnInfo) ==
    ProcessBurnInfo(self, nuc, burnInfo, 1)

\* Nuclide._processBurnData
_processBurnData(self, nuc, burnInfo) ==
    ProcessBurnInfo(self, [nuc EXCEPT !.decays = <<>>, !.trans = <<>>],
                    burnInfo, 1)

\* the loop of imposeBurnChain over burnData.items()[i..]: [raised, nh]
RECURSIVE ImposeLoop(_, _, _, _)
ImposeLoop(names, nh, burnData, i) ==
    IF i > Len(burnData) THEN [raised |-> "", nh |-> nh]
    ELSE IF burnData[i].nucName \notin DOMAIN names
    THEN [raised |-> "KeyError", nh |-> nh]
    ELSE LET Processed(nuclide, r) ==
                 IF r.raised # ""
                 THEN [raised |-> r.raised, nh |-> [nh EXCEPT ![nuclide] = r.obj]]
                 ELSE ImposeLoop(names, [nh EXCEPT ![nuclide] = r.obj],
                                 burnData, i + 1)
             Found(nuclide) ==
                 Processed(nuclide,
                           _processBurnData(nuclide, nh[nuclide], burnData[i].burnInfo))
         IN Found(names[burnData[i].nucName])

\* imposeBurnChain as it would be without the return after the warning
imposeBurnChain_reimposes(imposed, names, nh, burnData) ==
    LET Looped(r) == [raised |-> r.raised, warned |-> imposed,
                      imposed |-> TRUE, nh |-> r.nh]
    IN Looped(ImposeLoop(names, nh, burnData, 1))

\* imposeBurnChain as it would be with the flag set after the loop, when
\* the loop has not raised
imposeBurnChain_marksAfter(imposed, names, nh, burnData) ==
    IF imposed
    THEN [raised |-> "", warned |-> TRUE, imposed |-> imposed, nh |-> nh]
    ELSE LET Looped(r) == [raised |-> r.raised, warned |-> FALSE,
                           imposed |-> r.raised = "", nh |-> r.nh]
         IN Looped(ImposeLoop(names, nh, burnData, 1))

\* imposeBurnChain: [raised, warned, imposed, nh]
imposeBurnChain(imposed, names, nh, burnData) ==
    IF imposed
    THEN [raised |-> "", warned |-> TRUE, imposed |-> imposed, nh |-> nh]
    ELSE LET Looped(r) == [raised |-> r.raised, warned |-> FALSE,
                           imposed |-> TRUE, nh |-> r.nh]
         IN Looped(ImposeLoop(names, nh, burnData, 1))

(***************************************************************************)
(* The state after the nuclides of the model have been constructed from    *)
(* the registered elements and entered in the module-level indices.        *)
(***************************************************************************)
U235 == <<"U", "2", "3", "5">>
U239 == <<"U", "2", "3", "9">>
PU239 == <<"P", "U", "2", "3", "9">>
ZZ99 == <<"Z", "Z", "9", "9">>

\* the nuclides: U235, U239, PU239
BurnNuclides ==
    LET u == factory.chart.elements.bySymbol[<<"U">>]
        pu == factory.chart.elements.bySymbol[<<"P", "U">>]
        New(element, a) ==
            NuclideInit(factory.eh, element, NoneInt, a, 0, a, 0, Auto, Auto,
                        NoneStr).obj
    IN <<New(u, 235), New(u, 239), New(pu, 239)>>

RECURSIVE AddAllToIndices(_, _)
AddAllToIndices(idx, i) ==
    IF i > Len(BurnNuclides) THEN idx
    ELSE AddAllToIndices(
             _addNuclideToIndices(idx, factory.eh, BurnNuclides, i).idx, i + 1)

BurnIndices == AddAllToIndices(EmptyIndices, 1)

InitBurn ==
    /\ elemHeap = factory.eh
    /\ nucHeap = BurnNuclides
    /\ chart = factory.chart
    /\ instances = BurnIndices.instances
    /\ byName = BurnIndices.byName
    /\ byDBName = BurnIndices.byDBName
    /\ byLabel = BurnIndices.byLabel
    /\ byMccId = BurnIndices.byMccId
    /\ byMcnpId = BurnIndices.byMcnpId
    /\ byAAAZZZSId = BurnIndices.byAAAZZZSId
    /\ _burnChainImposed = FALSE
    /\ InitClosure
    /\ ret = NoRet

\* nuclideBases.imposeBurnChain(burnChainStream), the stream holding burnData
ImposeBurnChain(burnData) ==
    /\ pc # "loop"
    /\ \E r \in {imposeBurnChain(_burnChainImposed, byName, nucHeap, burnData)} :
          /\ _burnChainImposed' = r.imposed
          /\ nucHeap' = r.nh
          /\ ret' = [NoRet EXCEPT !.op = "imposeBurnChain",
                        !.raised = r.raised, !.warned = r.warned]
    /\ UNCHANGED <<elemHeap, chart, instances, byName, byDBName, byLabel,
                   byMccId, byMcnpId, byAAAZZZSId>>
    /\ UNCHANGED closureVars

(***************************************************************************)
(* SpecBurn: burn data, well-formed or not, is imposed again and again.    *)
(***************************************************************************)
MaxBurnRecords == 2    \* records in the burn data of one nuclide
MaxBurnNuclides == 2   \* nuclides named in the burn data
MaxQuantity == 1       \* largest number density of a composition

Item(key, products, value) == [key |-> key, products |-> products, value |-> value]

\* the records: one of each tag, one with two tags, one with an unknown tag
BurnCategories ==
    {<<Item(TRANSMUTATION, <<PU239>>, 0)>>,
     <<Item(DECAY, <<U239, PU239>>, 0)>>,
     <<Item(SPONTANEOUS_FISSION, <<>>, 2)>>,
     <<Item(TRANSMUTATION, <<PU239>>, 0), Item(DECAY, <<U235>>, 0)>>,
     <<Item("fission", <<>>, 0)>>}

BurnInfos == UNION {[1..k -> BurnCategories] : k \in 0..MaxBurnRecords}

BurnNames == {U235, PU239, ZZ99}

BurnDatas ==
    UNION {{d \in [1..k -> [nucName : BurnNames, burnInfo : BurnInfos]] :
               \A i, j \in 1..k : i # j => d[i].nucName # d[j].nucName} :
           k \in 0..MaxBurnNuclides}

NextBurn == \E burnData \in BurnDatas : ImposeBurnChain(burnData)

SpecBurn == InitBurn /\ [][NextBurn]_vars

(***************************************************************************)
(* initReachableActiveNuclidesThroughBurnChain                             *)
(***************************************************************************)
\* interaction.getPreferredProduct(libraryNucNames) raises KeyError
getPreferredProductRaises(interaction, libraryNucNames) ==
    \A k \in 1..Len(interaction.productNuclides) :
        interaction.productNuclides[k] \notin libraryNucNames

\* interaction.getPreferredProduct(libraryNucNames): the first of the
\* product nuclides that is in the library
getPreferredProduct(interaction, libraryNucNames) ==
    LET products == interaction.productNuclides
    IN products[CHOOSE k \in 1..Len(products) :
                   /\ products[k] \in libraryNucNames
                   /\ \A j \in 1..(k - 1) : products[j] \notin libraryNucNames]

\* any(difference): some element is truthy, i.e. is no empty string
any(S) == \E x \in S : x # <<>>

\* the body of the loop over the interactions, for one interaction, as it
\* would be with the product inserted whether or not it is active
ExpandInteraction_firstProduct(interaction, dict, missing, active) ==
    LET productNuclide == interaction.productNuclides[1]
    IN [dict |-> IF productNuclide \notin DOMAIN dict
                 THEN DictSet(dict, productNuclide, 0) ELSE dict,
        missing |-> missing]

\* as it would be with only the first product name recorded as missing
ExpandInteraction_firstMissing(interaction, dict, missing, active) ==
    IF getPreferredProductRaises(interaction, active)
    THEN [dict |-> dict,
          missing |-> missing \cup {<<interaction.productNuclides[1]>>}]
    ELSE LET productNuclide == getPreferredProduct(interaction, active)
         IN [dict |-> IF productNuclide \notin DOMAIN dict
                      THEN DictSet(dict, productNuclide, 0) ELSE dict,
             missing |-> missing]

\* as it would be with the product set to 0 even when it is a key
ExpandInteraction_resets(interaction, dict, missing, active) ==
    IF getPreferredProductRaises(interaction, active)
    THEN [dict |-> dict, missing |-> missing \cup {interaction.productNuclides}]
    ELSE [dict |-> DictSet(dict, getPreferredProduct(interaction, active), 0),
          missing |-> missing]

\* the body of the loop over the interactions, for one interaction:
\* [dict |-> numberDensityDict, missing |-> missingActiveNuclides]
ExpandInteraction(interaction, dict, missing, active) ==
    IF getPreferredProductRaises(interaction, active)
    THEN [dict |-> dict, missing |-> missing \cup {interaction.productNuclides}]
    ELSE LET productNuclide == getPreferredProduct(interaction, active)
         IN [dict |-> IF productNuclide \notin DOMAIN dict
                      THEN DictSet(dict, productNuclide, 0) ELSE dict,
             missing |-> missing]

\* the loop over the interactions as it would be if an interaction without
\* an active product ended it
RECURSIVE ExpandInteractions_stops(_, _, _, _, _)
ExpandInteractions_stops(interactions, i, dict, missing, active) ==
    IF i > Len(interactions) THEN [dict |-> dict, missing |-> missing]
    ELSE IF getPreferredProductRaises(interactions[i], active)
    THEN ExpandInteraction(interactions[i], dict, missing, active)
    ELSE LET Next1(r) == ExpandInteractions_stops(interactions, i + 1, r.dict,
                                                  r.missing, active)
         IN Next1(ExpandInteraction(interactions[i], dict, missing, active))

\* the loop over the interactions[i..] of one nuclide
RECURSIVE ExpandInteractions(_, _, _, _, _)
ExpandInteractions(interactions, i, dict, missing, active) ==
    IF i > Len(interactions) THEN [dict |-> dict, missing |-> missing]
    ELSE LET Next1(r) == ExpandInteractions(interactions, i + 1, r.dict,
                                            r.missing, active)
         IN Next1(ExpandInteraction(interactions[i], dict, missing, active))

closureName == "initReachableActiveNuclidesThroughBurnChain"

\* the call: missingActiveNuclides, memo and difference are initialised.
\* What a call reads is its arguments, its locals and the burn chain, which a
\* call leaves as it is: a behaviour holds one call, on any arguments.
ClosureBegin(dict, active) ==
    /\ pc = "idle"
    /\ numberDensityDict' = dict
    /\ activeNuclides' = active
    /\ startDict' = dict
    /\ missingActiveNuclides' = {}
    /\ memo' = {}
    /\ difference' = (DOMAIN dict) \ {}
    /\ pc' = "loop"
    /\ ret' = NoRet
    /\ UNCHANGED chartVars
    /\ UNCHANGED _burnChainImposed

\* one iteration as it would be without "memo.add(nuclide)"
ClosureIterate_unmarked(nuclide) ==
    /\ pc = "loop"
    /\ any(difference)
    /\ nuclide \in difference
    /\ memo' = memo
    /\ IF nuclide \notin activeNuclides
       THEN /\ difference' = difference \ {nuclide}
            /\ UNCHANGED <<numberDensityDict, missingActiveNuclides, pc, ret>>
       ELSE IF nuclide \notin DOMAIN byName
       THEN /\ difference' = difference \ {nuclide}
            /\ pc' = "done"
            /\ ret' = Returned(closureName, "KeyError", NoneRef)
            /\ UNCHANGED <<numberDensityDict, missingActiveNuclides>>
       ELSE \E r \in {ExpandInteractions(
                          nucHeap[byName[nuclide]].trans
                              \o nucHeap[byName[nuclide]].decays,
                          1, numberDensityDict, missingActiveNuclides,
                          activeNuclides)} :
               /\ numberDensityDict' = r.dict
               /\ missingActiveNuclides' = r.missing
               /\ difference' = (DOMAIN r.dict) \ memo'
               /\ UNCHANGED <<pc, ret>>
    /\ UNCHANGED <<activeNuclides, startDict>>
    /\ UNCHANGED chartVars
    /\ UNCHANGED _burnChainImposed

\* the preferred products of the interactions that have one
ResolvedProducts(interactions, active) ==
    {getPreferredProduct(interactions[k], active) :
        k \in {j \in 1..Len(interactions) :
                  ~getPreferredProductRaises(interactions[j], active)}}

\* one iteration as it would be if the products it resolves were marked as
\* visited with the nuclide
ClosureIterate_marksProducts(nuclide) ==
    /\ pc = "loop"
    /\ any(difference)
    /\ nuclide \in difference
    /\ IF nuclide \notin activeNuclides
       THEN /\ memo' = memo \cup {nuclide}
            /\ difference' = difference \ {nuclide}
            /\ UNCHANGED <<numberDensityDict, missingActiveNuclides, pc, ret>>
       ELSE IF nuclide \notin DOMAIN byName
       THEN /\ memo' = memo \cup {nuclide}
            /\ difference' = difference \ {nuclide}
            /\ pc' = "done"
            /\ ret' = Returned(closureName, "KeyError", NoneRef)
            /\ UNCHANGED <<numberDensityDict, missingActiveNuclides>>
       ELSE \E r \in {ExpandInteractions(
                          nucHeap[byName[nuclide]].trans
                              \o nucHeap[byName[nuclide]].decays,
                          1, numberDensityDict, missingActiveNuclides,
                          activeNuclides)} :
               /\ memo' = memo \cup {nuclide} \cup
                            ResolvedProducts(nucHeap[byName[nuclide]].trans
                                                \o nucHeap[byName[nuclide]].decays,
                                             activeNuclides)
               /\ numberDensityDict' = r.dict
               /\ missingActiveNuclides' = r.missing
               /\ difference' = (DOMAIN r.dict) \ memo'
               /\ UNCHANGED <<pc, ret>>
    /\ UNCHANGED <<activeNuclides, startDict>>
    /\ UNCHANGED chartVars
    /\ UNCHANGED _burnChainImposed

\* one iteration of the while loop, difference.pop() giving nuclide
ClosureIterate(nuclide) ==
    /\ pc = "loop"
    /\ any(difference)
    /\ nuclide \in difference
    /\ memo' = memo \cup {nuclide}
    /\ IF nuclide \notin activeNuclides
       THEN /\ difference' = difference \ {nuclide}
            /\ UNCHANGED <<numberDensityDict, missingActiveNuclides, pc, ret>>
       ELSE IF nuclide \notin DOMAIN byName
       THEN /\ difference' = difference \ {nuclide}
            /\ pc' = "done"
            /\ ret' = Returned(closureName, "KeyError", NoneRef)
            /\ UNCHANGED <<numberDensityDict, missingActiveNuclides>>
       ELSE \E r \in {ExpandInteractions(
                          nucHeap[byName[nuclide]].trans
                              \o nucHeap[byName[nuclide]].decays,
                          1, numberDensityDict, missingActiveNuclides,
                          activeNuclides)} :
               /\ numberDensityDict' = r.dict
               /\ missingActiveNuclides' = r.missing
               /\ difference' = (DOMAIN r.dict) \ memo'
               /\ UNCHANGED <<pc, ret>>
    /\ UNCHANGED <<activeNuclides, startDict>>
    /\ UNCHANGED chartVars
    /\ UNCHANGED _burnChainImposed

\* the loop has ended: _failOnMissingActiveNuclides raises ValueError with a
\* message that lists the missing groups, or the function returns
ClosureEnd ==
    /\ pc = "loop"
    /\ ~any(difference)
    /\ pc' = "done"
    /\ ret' = IF missingActiveNuclides # {}
              THEN [NoRet EXCEPT !.op = closureName, !.raised = "ValueError",
                                 !.groups = missingActiveNuclides]
              ELSE Returned(closureName, "", NoneRef)
    /\ UNCHANGED <<numberDensityDict, activeNuclides, missingActiveNuclides,
                   memo, difference, startDict>>
    /\ UNCHANGED chartVars
    /\ UNCHANGED _burnChainImposed

(***************************************************************************)
(* SpecClosure: a burn chain is imposed, and the closure is called with    *)
(* compositions and active sets over the names U235, U239, PU239 and ZZ99  *)
(* (which names no nuclide).                                               *)
(***************************************************************************)
ClosureNames == {U235, U239, PU239, ZZ99}

\* the burn information of U235, U239 and PU239: products of which the first
\* is not always active, a product that names no nuclide, a cycle
U235Infos ==
    {<< <<Item(TRANSMUTATION, <<U239, PU239>>, 0)>> >>,
     << <<Item(TRANSMUTATION, <<PU239>>, 0)>>,
        <<Item(DECAY, <<ZZ99>>, 0)>> >>}

U239Infos == {<<>>, << <<Item(DECAY, <<PU239>>, 0)>> >>}

PU239Infos == {<<>>, << <<Item(DECAY, <<U235>>, 0)>>,
                        <<Item(TRANSMUTATION, <<U239, ZZ99>>, 0)>> >>}

ClosureBurnDatas ==
    {<<[nucName |-> U235, burnInfo |-> i1], [nucName |-> U239, burnInfo |-> i2],
       [nucName |-> PU239, burnInfo |-> i3]>> :
        i1 \in U235Infos, i2 \in U239Infos, i3 \in PU239Infos}

\* the compositions: number densities of some of the names
Compositions ==
    UNION {[keys -> 1..MaxQuantity] : keys \in SUBSET ClosureNames}

NextClosure ==
    \/ \E burnData \in ClosureBurnDatas : ImposeBurnChain(burnData)
    \/ \E dict \in Compositions, active \in SUBSET ClosureNames :
           ClosureBegin(dict, active)
    \/ \E nuclide \in ClosureNames : ClosureIterate(nuclide)
    \/ ClosureEnd

SpecClosure == InitBurn /\ [][NextClosure]_vars

\* the interpreter runs the statements of a call one after the other: an
\* iteration or the end of the loop that can be taken is taken
SpecClosureFair ==
    /\ InitBurn
    /\ [][NextClosure]_vars
    /\ WF_vars(\E nuclide \in ClosureNames : ClosureIterate(nuclide))
    /\ WF_vars(ClosureEnd)

(***************************************************************************)
(* Claims about the Nuclide registry of the chart (SpecChart).             *)
(***************************************************************************)
\* a key of the nuclide is held by another registered nuclide
KeyCollision(nuclide) ==
    \E m \in chart.nuclides._nuclides :
        /\ m # nuclide
        /\ \/ nucHeap[m].name = nucHeap[nuclide].name
           \/ nucHeap[m].label = nucHeap[nuclide].label

\* C1: Nuclides.add of a nuclide whose name or label is a key held by a
\* different registered nuclide raises, and leaves the nuclide set and
\* every index map of the registry as they were.
C1_AddRejectsDuplicateKeys ==
    [][(ret'.op = "Nuclides.add" /\ KeyCollision(ret'.n))
          => (ret'.raised = "ValueError" /\ chart'.nuclides = chart.nuclides)]_vars

\* the database name of a nuclide as a client writes it: "n" + capitalize(name)
DatabaseNameOf(nuc) == <<"n">> \o capitalize(nuc.name)

\* C9: after a successful Nuclides.add(n), n is found by its name, by its
\* database name and by its label.
C9_AddedIsRetrievable ==
    (ret.op = "Nuclides.add" /\ ret.raised = "") =>
        LET reg == chart.nuclides
            nuc == nucHeap[ret.n]
        IN /\ nuc.name \in DOMAIN reg.byName
           /\ reg.byName[nuc.name] = ret.n
           /\ DatabaseNameOf(nuc) \in DOMAIN reg.byDbName.str
           /\ reg.byDbName.str[DatabaseNameOf(nuc)] = ret.n
           /\ nuc.label \in DOMAIN reg.byLabel
           /\ reg.byLabel[nuc.label] = ret.n

\* the registered nuclides that satisfy the predicate of the last query
Satisfying == {n \in chart.nuclides._nuclides :
                  /\ ret.p.field = "a" => nucHeap[n].a = ret.p.value
                  /\ ret.p.field = "z" => nucHeap[n].z = ret.p.value}

\* C10: single returns n exactly when n is the only registered nuclide that
\* satisfies the predicate, and otherwise raises with the matches listed;
\* where yields exactly the matches and never raises; neither changes the
\* registry.
C10_SingleAndWhere ==
    [][/\ ret'.op = "Nuclides.single" =>
            /\ chart' = chart /\ nucHeap' = nucHeap /\ elemHeap' = elemHeap
            /\ (ret'.raised = "") <=> (Cardinality(Satisfying') = 1)
            /\ ret'.raised = "" => Satisfying' = {ret'.n}
            /\ ret'.raised # "" =>
                   ret'.raised = "ValueError" /\ ret'.matches = Satisfying'
       /\ ret'.op = "Nuclides.where" =>
            /\ chart' = chart /\ nucHeap' = nucHeap /\ elemHeap' = elemHeap
            /\ ret'.raised = ""
            /\ ret'.matches = Satisfying']_vars

\* single has failed on two matches
C10_Witness ==
    /\ ret.op = "Nuclides.single"
    /\ ret.raised = "ValueError"
    /\ Cardinality(ret.matches) = 2

(***************************************************************************)
(* Claims about the Element registry of the chart (SpecElements).          *)
(***************************************************************************)
\* a key of the element is occupied in one of the three maps
ElementKeyCollision(element) ==
    \/ elemHeap[element].z \in DOMAIN chart.elements.byZ
    \/ elemHeap[element].symbol \in DOMAIN chart.elements.bySymbol
    \/ elemHeap[element].name \in DOMAIN chart.elements.byName

\* C8: Elements.add of an element whose z, symbol or name is a key of a
\* registered element raises and replaces no entry of byZ, bySymbol, byName.
C8_ElementsAddRejectsDuplicates ==
    [][(ret'.op = "Elements.add" /\ ElementKeyCollision(ret'.n))
          => (ret'.raised # "" /\ chart'.elements = chart.elements)]_vars

(***************************************************************************)
(* Claims about the build of the chart (SpecBuild).                        *)
(***************************************************************************)
\* the elements a client obtains through byZ, bySymbol and byName
LookedUpElements ==
    {chart.elements.byZ[k] : k \in DOMAIN chart.elements.byZ}
    \cup {chart.elements.bySymbol[k] : k \in DOMAIN chart.elements.bySymbol}
    \cup {chart.elements.byName[k] : k \in DOMAIN chart.elements.byName}

\* C2: every element obtained through the lookups has standardWeight equal to
\* sum(weight * abundance) / sum(abundance) over its attached isotopes when
\* one of them has positive abundance, and unset otherwise.
C2_StandardWeightIsAverage ==
    \A e \in LookedUpElements :
        LET el == elemHeap[e]
        IN IF \E n \in el.isotopes : nucHeap[n].abundance > 0
           THEN /\ el.standardWeight # NoWeight
                /\ el.standardWeight.num * SumAbundance(nucHeap, el.isotopes)
                     = SumWeightAbundance(nucHeap, el.isotopes)
                         * el.standardWeight.den
           ELSE el.standardWeight = NoWeight

\* C3: every registered nuclide with an element back-reference is in the
\* isotopes of exactly one element of the chart, the one it refers to.
C3_IsotopeOfItsElement ==
    \A n \in chart.nuclides._nuclides :
        nucHeap[n].element # NoneRef =>
            {e \in LookedUpElements \cup chart.elements._elements :
                n \in elemHeap[e].isotopes} = {nucHeap[n].element}

(***************************************************************************)
(* Claims about imposeBurnChain (SpecBurn).                                *)
(***************************************************************************)
\* C4: once the burn chain has been imposed, a later imposeBurnChain leaves
\* the transmutation list, the decay list and nuSF of every nuclide as they
\* are, logs a warning and returns without raising.
C4_ImposedAtMostOnce ==
    [][(_burnChainImposed /\ ret'.op = "imposeBurnChain")
          => /\ \A n \in DOMAIN nucHeap :
                   /\ nucHeap'[n].trans = nucHeap[n].trans
                   /\ nucHeap'[n].decays = nucHeap[n].decays
                   /\ nucHeap'[n].nuSF = nucHeap[n].nuSF
             /\ ret'.warned
             /\ ret'.raised = ""]_vars

\* a second imposition has been skipped after a first one that gave edges
C4_Witness ==
    /\ ret.op = "imposeBurnChain"
    /\ ret.warned
    /\ \E n \in DOMAIN nucHeap : nucHeap[n].trans # <<>>

(***************************************************************************)
(* Claims about initReachableActiveNuclidesThroughBurnChain (SpecClosure). *)
(***************************************************************************)
\* the transmutation and decay edges of the nuclide named x
EdgesOf(x) ==
    IF x \in DOMAIN byName
    THEN LET interactions == nucHeap[byName[x]].trans \o nucHeap[byName[x]].decays
         IN {interactions[k] : k \in 1..Len(interactions)}
    ELSE {}

\* the edges of x that have a product in the active set
ResolvableEdges(x) ==
    {e \in EdgesOf(x) : ~getPreferredProductRaises(e, activeNuclides)}

\* S with the preferred products of the edges of its active members
Closed(S) ==
    S \cup {getPreferredProduct(e, activeNuclides) :
               e \in UNION {ResolvableEdges(x) : x \in S \cap activeNuclides}}

\* the least set that contains S and is closed
RECURSIVE LeastClosed(_)
LeastClosed(S) == IF Closed(S) = S THEN S ELSE LeastClosed(Closed(S))

\* the call has ended
ClosureDone == pc = "done" /\ ret.op = closureName

\* C5: when the closure returns, the keys of the composition are the least
\* set that contains the initial keys and the preferred product of every edge
\* of each of its active members; every added key is in the active set.
C5_ClosureResult ==
    (ClosureDone /\ ret.raised = "")
        => /\ DOMAIN numberDensityDict = LeastClosed(DOMAIN startDict)
           /\ (DOMAIN numberDensityDict) \ (DOMAIN startDict) \subseteq activeNuclides

\* a call has returned after it added the second alternative of an edge
C5_Witness ==
    /\ ClosureDone
    /\ ret.raised = ""
    /\ \E x \in DOMAIN startDict : \E e \in ResolvableEdges(x) :
          /\ e.productNuclides[1] \notin activeNuclides
          /\ getPreferredProduct(e, activeNuclides) \notin DOMAIN startDict
          /\ getPreferredProduct(e, activeNuclides) \in DOMAIN numberDensityDict

\* the product groups of the edges of visited active nuclides that have no
\* product in the active set
UnresolvedGroups ==
    {e.productNuclides :
        e \in UNION {EdgesOf(x) \ ResolvableEdges(x) : x \in memo \cap activeNuclides}}

\* the failure is the MissingActiveNuclides error exactly when a group is
\* unresolved, and it lists the unresolved groups
MissingActiveNuclidesIffUnresolved ==
    /\ (ret.raised = "ValueError") <=> (UnresolvedGroups # {})
    /\ ret.raised = "ValueError" => ret.groups = UnresolvedGroups

C7_ClosureFrame ==
    [][pc = "loop" =>
          /\ \A k \in DOMAIN numberDensityDict :
                /\ k \in DOMAIN numberDensityDict'
                /\ numberDensityDict'[k] = numberDensityDict[k]
          /\ \A k \in (DOMAIN numberDensityDict') \ (DOMAIN numberDensityDict) :
                numberDensityDict'[k] = 0]_vars

\* {U235: 1} with active {U235, PU239} has ended as {U235: 1, PU239: 0}
C7_Witness ==
    /\ ClosureDone
    /\ startDict = (U235 :> 1)
    /\ activeNuclides = {U235, PU239}
    /\ numberDensityDict = (U235 :> 1 @@ PU239 :> 0)

(***************************************************************************)
(* SpecNuclide: clients construct nuclides, from a registered element or   *)
(* from z, ground state or metastable, named by themselves or by the       *)
(* constructor, and dummy nuclides.                                        *)
(***************************************************************************)
\* mass numbers of nuclides, of one, two and three digits
NuclideMassNumbers == {3, 10, 235, 242}

DUMP1 == <<"D", "U", "M", "P", "1">>

NuclideNewNuclide ==
    \E element \in RegisteredElements \cup {NoneRef}, z \in {NoneInt, 0, 95},
       a \in NuclideMassNumbers, state \in {0, 1},
       names \in {<<Auto, Auto>>, <<<<"X">>, <<"X", "L">>>>} :
        NewNuclide(element, z, a, state, a, 0, names[1], names[2], NoneStr)

\* nucHeap[n].getMcnpId()
GetMcnpId(n) ==
    /\ ret' = [Returned("getMcnpId", "", n) EXCEPT !.value = getMcnpId(nucHeap[n])]
    /\ UNCHANGED chartVars
    /\ UNCHANGED _burnChainImposed
    /\ UNCHANGED closureVars

\* nucHeap[n].getMcc3Id()
GetMcc3Id(n) ==
    /\ ret' = IF getMcc3IdRaises(nucHeap[n])
              THEN Returned("getMcc3Id", "AttributeError", n)
              ELSE [Returned("getMcc3Id", "", n) EXCEPT
                      !.value = getMcc3Id(elemHeap, nucHeap[n])]
    /\ UNCHANGED chartVars
    /\ UNCHANGED _burnChainImposed
    /\ UNCHANGED closureVars

NextNuclide ==
    \/ NuclideNewNuclide
    \/ \E name \in {DUMP1, <<"D", "M", "P">>} : NewDummy(name, NoneStr, 0)
    \/ \E n \in 1..Len(nucHeap) : GetMcnpId(n)
    \/ \E n \in 1..Len(nucHeap) : GetMcc3Id(n)

SpecNuclide == InitChart /\ [][NextNuclide]_vars

(***************************************************************************)
(* Claims about the construction of nuclides (SpecNuclide).                *)
(***************************************************************************)
\* C11: the construction of a nuclide, a dummy nuclide included, raises iff
\* both or neither of element and z are given; with one of them given the
\* nuclide is constructed with the z given, or the z of the element given,
\* and with the element given.
C11_ConstructionIffExactlyOne ==
    [][(ret'.op \in {"Nuclide", "DummyNuclideBase"} /\ ret' # ret)
          => LET exactlyOne ==
                     (ret'.args.element = NoneRef) # (ret'.args.z = NoneInt)
             IN /\ (ret'.raised # "") <=> ~exactlyOne
                /\ exactlyOne =>
                      /\ nucHeap'[ret'.n].z =
                            IF ret'.args.z # NoneInt THEN ret'.args.z
                            ELSE elemHeap[ret'.args.element].z
                      /\ nucHeap'[ret'.n].element = ret'.args.element]_vars

(***************************************************************************)
(* Claims about equality and hashing (SpecChart).                          *)
(***************************************************************************)
SameTriple(m, n) ==
    /\ nucHeap[m].z = nucHeap[n].z
    /\ nucHeap[m].a = nucHeap[n].a
    /\ nucHeap[m].state = nucHeap[n].state

\* C12: two Nuclide objects are equal iff they have the same z, a and state,
\* and equal ones have the same hash; two Element objects are equal iff they
\* have the same z, symbol and name, and equal ones have the same hash.
C12_EqualityByTriple ==
    /\ \A m, n \in DOMAIN nucHeap :
          /\ NuclideEq(m, n) <=> SameTriple(m, n)
          /\ SameTriple(m, n) => NuclideHash(nucHeap[m]) = NuclideHash(nucHeap[n])
    /\ \A e, f \in DOMAIN elemHeap :
          /\ ElementEq(elemHeap[e], elemHeap[f])
                <=> /\ elemHeap[e].z = elemHeap[f].z
                    /\ elemHeap[e].symbol = elemHeap[f].symbol
                    /\ elemHeap[e].name = elemHeap[f].name
          /\ ElementEq(elemHeap[e], elemHeap[f])
                => ElementHash(elemHeap[e]) = ElementHash(elemHeap[f])

(***************************************************************************)
(* The end of __readMc2Nuclides: the special case AM242.                   *)
(***************************************************************************)
AM242 == <<"A", "M", "2", "4", "2">>
AM242M == <<"A", "M", "2", "4", "2", "M">>
AM242G == <<"A", "M", "2", "4", "2", "G">>

\* the special case as it would be without the weight of the ground state
\* given to the metastable state
__readMc2Nuclides_AM242_ownWeight(idx, nh) ==
    IF AM242 \notin DOMAIN idx.byName \/ AM242M \notin DOMAIN idx.byName
    THEN [raised |-> "KeyError", idx |-> idx, nh |-> nh]
    ELSE LET am242g == idx.byName[AM242]
             am242 == idx.byName[AM242M]
             nh2 == [[nh EXCEPT ![am242g].name = AM242G] EXCEPT ![am242].name = AM242]
         IN [raised |-> "",
             idx |-> [idx EXCEPT
                        !.byName = DictSet(DictSet(@, AM242, am242), AM242G, am242g),
                        !.byDBName =
                            DictSet(DictSet(@, getDatabaseName(nh2[am242]), am242),
                                    getDatabaseName(nh2[am242g]), am242g)],
             nh |-> nh2]

\* nuclideBases.py lines 296-304: [raised, idx, nh].  A KeyError of a lookup
\* leaves the assignments made before it.
__readMc2Nuclides_AM242(idx, nh) ==
    IF AM242 \notin DOMAIN idx.byName
    THEN [raised |-> "KeyError", idx |-> idx, nh |-> nh]
    ELSE LET am242g == idx.byName[AM242]
             nh1 == [nh EXCEPT ![am242g].name = AM242G]
         IN IF AM242M \notin DOMAIN idx.byName
            THEN [raised |-> "KeyError", idx |-> idx, nh |-> nh1]
            ELSE LET am242 == idx.byName[AM242M]
                     nh2 == [nh1 EXCEPT ![am242].name = AM242]
                     nh3 == [nh2 EXCEPT ![am242].weight = nh2[am242g].weight]
                     idx1 == [idx EXCEPT !.byName = DictSet(@, nh3[am242].name, am242)]
                     idx2 == [idx1 EXCEPT
                                !.byDBName = DictSet(@, getDatabaseName(nh3[am242]),
                                                     am242)]
                     idx3 == [idx2 EXCEPT !.byName = DictSet(@, AM242G, am242g)]
                     idx4 == [idx3 EXCEPT
                                !.byDBName =
                                    DictSet(@, getDatabaseName(nh3[idx3.byName[AM242G]]),
                                            am242g)]
                 IN [raised |-> "", idx |-> idx4, nh |-> nh3]

\* _addNuclideToIndices(nuc) of a constructed nuclide, which is entered once
AddNuclideToIndices(n) ==
    /\ \A i \in DOMAIN instances : instances[i] # n
    /\ \E r \in {_addNuclideToIndices(Indices, elemHeap, nucHeap, n)} :
          /\ instances' = r.idx.instances
          /\ byName' = r.idx.byName
          /\ byDBName' = r.idx.byDBName
          /\ byLabel' = r.idx.byLabel
          /\ byMccId' = r.idx.byMccId
          /\ byMcnpId' = r.idx.byMcnpId
          /\ byAAAZZZSId' = r.idx.byAAAZZZSId
          /\ ret' = Returned("_addNuclideToIndices", r.raised, n)
    /\ UNCHANGED <<elemHeap, nucHeap, chart, _burnChainImposed>>
    /\ UNCHANGED closureVars

\* the special case AM242 at the end of __readMc2Nuclides
ReadMc2Nuclides_AM242 ==
    /\ \E r \in {__readMc2Nuclides_AM242(Indices, nucHeap)} :
          /\ nucHeap' = r.nh
          /\ instances' = r.idx.instances
          /\ byName' = r.idx.byName
          /\ byDBName' = r.idx.byDBName
          /\ byLabel' = r.idx.byLabel
          /\ byMccId' = r.idx.byMccId
          /\ byMcnpId' = r.idx.byMcnpId
          /\ byAAAZZZSId' = r.idx.byAAAZZZSId
          /\ ret' = Returned("__readMc2Nuclides", r.raised, NoneRef)
    /\ UNCHANGED <<elemHeap, chart, _burnChainImposed>>
    /\ UNCHANGED closureVars

(***************************************************************************)
(* SpecMc2: americium nuclides are constructed and entered in the indices, *)
(* and the special case AM242 is applied.                                  *)
(***************************************************************************)
Americium == <<"a", "m", "e", "r", "i", "c", "i", "u", "m">>

\* the elements of the chart and americium
Mc2Elements == Append(factory.eh, Element(95, <<"A", "M">>, Americium))

InitMc2 ==
    /\ elemHeap = Mc2Elements
    /\ nucHeap = <<>>
    /\ chart = factory.chart
    /\ InitIndices
    /\ InitClosure
    /\ ret = NoRet

Mc2NewNuclide ==
    \E a \in {241, 242}, state \in {0, 1}, d \in 0..MaxExcess + 1 :
        NewNuclide(Len(Mc2Elements), NoneInt, a, state, a + d, 0, Auto, Auto,
                   NoneStr)

NextMc2 ==
    \/ Mc2NewNuclide
    \/ \E n \in 1..Len(nucHeap) : AddNuclideToIndices(n)
    \/ ReadMc2Nuclides_AM242

SpecMc2 == InitMc2 /\ [][NextMc2]_vars

(***************************************************************************)
(* Claims about the special case AM242 (SpecMc2).                          *)
(***************************************************************************)
\* the nuclide that key finds in byName is americium 242 in this state
IsAm242(names, nh, key, state) ==
    /\ key \in DOMAIN names
    /\ nh[names[key]].z = 95
    /\ nh[names[key]].a = 242
    /\ nh[names[key]].state = state

\* the bulk build has entered the ground state as AM242, the metastable
\* state as AM242M
BulkBuilt ==
    /\ IsAm242(byName, nucHeap, AM242, 0)
    /\ IsAm242(byName, nucHeap, AM242M, 1)
    /\ nucHeap[byName[AM242]].name = AM242
    /\ nucHeap[byName[AM242M]].name = AM242M

LabelMassNumbers == {0, 3, 13, 103, 235, 1003, 1235, 9999}

LabelNewNuclide ==
    \E element \in RegisteredElements, a \in LabelMassNumbers, state \in {0, 1} :
        NewNuclide(element, NoneInt, a, state, a, 0, Auto, Auto, NoneStr)

NextLabel == LabelNewNuclide

SpecLabel == InitChart /\ [][NextLabel]_vars

(***************************************************************************)
(* Claims about the labels (SpecLabel, where every label is derived).      *)
(***************************************************************************)
\* 10 ** (4 - L) for the symbol of the element of nuclide n
LabelModulus(n) == Pow10(4 - Len(elemHeap[nucHeap[n].element].symbol))

\* C14: two nuclides of one element with the same derived label have the
\* same state and the same A modulo 10 ** (4 - L), L the length of the symbol.
C14_LabelInjective ==
    \A m, n \in DOMAIN nucHeap :
        (nucHeap[m].element = nucHeap[n].element
           /\ nucHeap[m].label = nucHeap[n].label)
        => /\ nucHeap[m].state = nucHeap[n].state
           /\ nucHeap[m].a % LabelModulus(m) = nucHeap[n].a % LabelModulus(n)

\* two nuclides of one element and different A have the same label
C14_Witness ==
    \E m, n \in DOMAIN nucHeap :
        /\ nucHeap[m].element = nucHeap[n].element
        /\ nucHeap[m].label = nucHeap[n].label
        /\ nucHeap[m].a # nucHeap[n].a

\* '0'..'9', 'A'..'J'
LastCharacters == Digits \o SubSeq(UpperCase, 1, 10)

\* the symbol padded with spaces to two characters
SpacePadded(symbol) == IF Len(symbol) < 2 THEN symbol \o <<" ">> ELSE symbol

McnpMassNumber(nuc) ==
    IF nuc.z = 95 /\ nuc.a = 242
    THEN IF nuc.state = 1 THEN 242
         ELSE IF nuc.state = 0 THEN 642 ELSE nuc.a + 300 + 100 * nuc.state
    ELSE IF nuc.state = 0 THEN nuc.a ELSE nuc.a + 300 + 100 * nuc.state

\* C16: getMcnpId returns z * 1000 + A' in decimal, A' being a for a ground
\* state and a + 300 + 100 * state for a metastable state, but 242 for the
\* metastable state 1 and 642 for the ground state of z = 95, a = 242.
C16_McnpId ==
    ret.op = "getMcnpId"
        => /\ ret.raised = ""
           /\ ret.value = Str(nucHeap[ret.n].z * 1000 + McnpMassNumber(nucHeap[ret.n]))

\* the MCNP id of a metastable state of Am242 has been returned, with both
\* states of Am242 constructed
C16_Witness ==
    /\ ret.op = "getMcnpId"
    /\ nucHeap[ret.n].z = 95 /\ nucHeap[ret.n].a = 242 /\ nucHeap[ret.n].state = 1
    /\ \E n \in DOMAIN nucHeap :
          nucHeap[n].z = 95 /\ nucHeap[n].a = 242 /\ nucHeap[n].state = 0

\* the nuclide whose MC2-v3 id was asked for, and the symbol of its element
Mcc3Nuclide == nucHeap[ret.n]

Mcc3Symbol == elemHeap[Mcc3Nuclide.element].symbol

\* C17 as stated: the MC2-v3 id of a nuclide with an element is the symbol
\* and A mod 100, with "M" after them for a metastable state, padded with
\* underscores to five characters, then "7".
C17_Mcc3IdLastTwoDigits ==
    (ret.op = "getMcc3Id" /\ Mcc3Nuclide.element # NoneRef)
        => /\ ret.raised = ""
           /\ Len(ret.value) = 6
           /\ ret.value =
                 UnderscorePad(Mcc3Symbol \o Str(Mcc3Nuclide.a % 100)
                                  \o (IF Mcc3Nuclide.state > 0 THEN <<"M">> ELSE <<>>),
                               5) \o <<"7">>

\* C17: the MC2-v3 id of a nuclide with an element is the symbol and A for a
\* ground state, the symbol, A mod 100 and "M" for a metastable state,
\* padded with underscores to five characters, then "7": six characters.
C17_Mcc3Id ==
    (ret.op = "getMcc3Id" /\ Mcc3Nuclide.element # NoneRef)
        => /\ ret.raised = ""
           /\ Len(ret.value) = 6
           /\ ret.value =
                 UnderscorePad(IF Mcc3Nuclide.state > 0
                               THEN Mcc3Symbol \o Str(Mcc3Nuclide.a % 100) \o <<"M">>
                               ELSE Mcc3Symbol \o Str(Mcc3Nuclide.a),
                               5) \o <<"7">>

\* the MC2-v3 ids of a ground state and of a metastable state of three
\* digits have been returned
C17_Witness ==
    /\ ret.op = "getMcc3Id"
    /\ ret.raised = ""
    /\ Mcc3Nuclide.a >= 100
    /\ Mcc3Nuclide.state = 0
    /\ \E n \in DOMAIN nucHeap : nucHeap[n].state = 1 /\ nucHeap[n].element # NoneRef

(***************************************************************************)
(* SpecBurnData: _processBurnData is called on a nuclide again and again,  *)
(* with burn data well-formed or not.                                      *)
(***************************************************************************)
\* nucHeap[n]._processBurnData(burnInfo)
ProcessBurnData(n, burnInfo) ==
    /\ \E r \in {_processBurnData(n, nucHeap[n], burnInfo)} :
          /\ nucHeap' = [nucHeap EXCEPT ![n] = r.obj]
          /\ ret' = [Returned("_processBurnData", r.raised, n) EXCEPT
                        !.burnInfo = burnInfo]
    /\ UNCHANGED <<elemHeap, chart, instances, byName, byDBName, byLabel,
                   byMccId, byMcnpId, byAAAZZZSId, _burnChainImposed>>
    /\ UNCHANGED closureVars

NextBurnData ==
    \E nucName \in {U235, PU239}, burnInfo \in BurnInfos :
        ProcessBurnData(byName[nucName], burnInfo)

SpecBurnData == InitBurn /\ [][NextBurnData]_vars

(***************************************************************************)
(* Claims about _processBurnData (SpecBurnData).                           *)
(***************************************************************************)
\* the records of burnInfo that carry the one tag key
RecordsTagged(burnInfo, key) ==
    SelectSeq(burnInfo, LAMBDA category : Len(category) = 1 /\ category[1].key = key)

\* the record is dispatched: it has one tag, a known one
Dispatched(category) ==
    /\ Len(category) = 1
    /\ category[1].key \in {TRANSMUTATION, DECAY, SPONTANEOUS_FISSION}

\* C18: _processBurnData raises iff a record has more than one tag or an
\* unknown tag; otherwise the transmutation list is the transmutation
\* records of this call in their order, the decay list the decay records in
\* their order, and nuSF the value of the last spontaneous-fission record.
C18_BurnDataDispatched ==
    [][ret'.op = "_processBurnData" =>
          LET burnInfo == ret'.burnInfo
              self == ret'.n
              transmutations == RecordsTagged(burnInfo, TRANSMUTATION)
              decays == RecordsTagged(burnInfo, DECAY)
              fissions == RecordsTagged(burnInfo, SPONTANEOUS_FISSION)
          IN /\ (ret'.raised # "")
                   <=> \E i \in DOMAIN burnInfo : ~Dispatched(burnInfo[i])
             /\ ret'.raised = ""
                   => /\ nucHeap'[self].trans =
                            [i \in DOMAIN transmutations |->
                                Transmutation(self, transmutations[i][1])]
                      /\ nucHeap'[self].decays =
                            [i \in DOMAIN decays |-> DecayMode(self, decays[i][1])]
                      /\ nucHeap'[self].nuSF =
                            IF fissions = <<>> THEN nucHeap[self].nuSF
                            ELSE fissions[Len(fissions)][1].value
             /\ \A n \in DOMAIN nucHeap : n # self => nucHeap'[n] = nucHeap[n]]_vars

\* a call on a nuclide that had a transmutation and a decay has left it with
\* one transmutation and no decay
C18_Witness ==
    /\ ret.op = "_processBurnData"
    /\ ret.raised = ""
    /\ Len(ret.burnInfo) = 1
    /\ Len(nucHeap[ret.n].trans) = 1
    /\ nucHeap[ret.n].decays = <<>>
    /\ nucHeap[ret.n].nuSF = 2

(***************************************************************************)
(* SpecDirectories: the burn chain is imposed for one directory and for    *)
(* another.  imposeBurnChain takes the stream only: the directory a call   *)
(* is made for is known to the caller, and is kept in ret.n.               *)
(***************************************************************************)
Directories == {1, 2}

\* imposeBurnChain(burnChainStream) called for a directory
ImposeBurnChainFor(directory, burnData) ==
    /\ \E r \in {imposeBurnChain(_burnChainImposed, byName, nucHeap, burnData)} :
          /\ _burnChainImposed' = r.imposed
          /\ nucHeap' = r.nh
          /\ ret' = [Returned("imposeBurnChain", r.raised, directory) EXCEPT
                        !.warned = r.warned]
    /\ UNCHANGED <<elemHeap, chart, instances, byName, byDBName, byLabel,
                   byMccId, byMcnpId, byAAAZZZSId>>
    /\ UNCHANGED closureVars

\* the burn data of one nuclide
DirectoryBurnDatas ==
    {<<[nucName |-> nucName, burnInfo |-> burnInfo]>> :
        nucName \in {U235, U239, PU239}, burnInfo \in BurnInfos}

NextDirectories ==
    \E directory \in Directories, burnData \in DirectoryBurnDatas :
        ImposeBurnChainFor(directory, burnData)

SpecDirectories == InitBurn /\ [][NextDirectories]_vars

(***************************************************************************)
(* Claims about the independence of directories (SpecDirectories).         *)
(***************************************************************************)
\* C19, the burn chain: when the burn chain has been imposed for the first
\* time for one directory, the next imposition, if it is for another
\* directory, is the first for that one and is not skipped.
C19_ImposedPerDirectory ==
    [][(/\ ret.op = "imposeBurnChain" /\ ~ret.warned
        /\ ret'.op = "imposeBurnChain" /\ ret'.n # ret.n)
          => ~ret'.warned]_vars

\* ---------------------------------------------------------------------
\* C20: chart.nuclides.update(other) folds the nuclides of other into the
\* registry: it raises exactly when a nuclide of other collides with one
\* already registered (or occurs twice in other), and after it returns
\* every nuclide of other is in _nuclides and is the entry of its name in
\* byName and of its label in byLabel.
Collides(reg, other) ==
    \/ \E i \in 1..Len(other) : other[i] \in reg._nuclides
    \/ \E i, j \in 1..Len(other) : i # j /\ other[i] = other[j]

WorklistIsKeysMinusVisited ==
    pc \in {"loop", "done"} => difference = (DOMAIN numberDensityDict) \ memo

\* a pop takes one key of the worklist, which was not visited, and marks it;
\* the visited set only grows
PoppedOnce ==
    [][(pc = "loop" /\ difference' # difference) =>
          \E nuclide \in difference \ memo : memo' = memo \cup {nuclide}]_vars

\* when the loop ends (its condition is false), every key is visited
AllVisitedAtEnd ==
    [][(pc = "loop" /\ pc' = "done" /\ ret'.raised # "KeyError") =>
          DOMAIN numberDensityDict' \subseteq memo']_vars

ClosedComposition ==
    [k \in LeastClosed(DOMAIN startDict) |->
        IF k \in DOMAIN startDict THEN startDict[k] ELSE 0]

\* the groups that depend on the arguments and the burn chain only: those of
\* the edges without an active product of the active members of the closure
ClosedMissingGroups ==
    {e.productNuclides :
        e \in UNION {EdgesOf(x) \ ResolvableEdges(x) :
                        x \in LeastClosed(DOMAIN startDict) \cap activeNuclides}}

\* every active name of the closure is a key of byName
ClosureRegistered ==
    LeastClosed(DOMAIN startDict) \cap activeNuclides \subseteq DOMAIN byName

\* the outcome that depends on the arguments and the burn chain only
ClosedOutcome ==
    IF ~ClosureRegistered THEN "KeyError"
    ELSE IF ClosedMissingGroups = {} THEN "" ELSE "ValueError"

\* the missing groups of a call that ended its loop
MissingAsDetermined ==
    ret.raised # "KeyError" =>
        /\ missingActiveNuclides = ClosedMissingGroups
        /\ ret.groups = ClosedMissingGroups

\* C22 as stated: whatever the order of the pops, a call on the same
\* composition, active set and burn chain ends with the same composition,
\* the same missing groups and the same outcome (those of the order that
\* pops the names that are no key of byName last).
C22_OrderIndependent ==
    ClosureDone =>
        /\ numberDensityDict = ClosedComposition
        /\ ret.raised = ClosedOutcome
        /\ MissingAsDetermined

\* C22: every order of the pops ends with the same outcome; when every
\* active name of the closure is a key of byName, every order ends with the
\* same composition and the same missing groups; otherwise every order fails
\* with KeyError, with a composition between the given one and the closed
\* one, which depends on the order.
C22_OrderIndependentWhenRegistered ==
    ClosureDone =>
        /\ ret.raised = ClosedOutcome
        /\ MissingAsDetermined
        /\ IF ClosureRegistered
           THEN numberDensityDict = ClosedComposition
           ELSE /\ DOMAIN startDict \subseteq DOMAIN numberDensityDict
                /\ \A k \in DOMAIN numberDensityDict :
                       /\ k \in DOMAIN ClosedComposition
                       /\ numberDensityDict[k] = ClosedComposition[k]

\* a call on two keys that both have edges has ended, with an inserted
\* product and a missing group
C22_Witness ==
    /\ ClosureDone
    /\ ClosureRegistered
    /\ DOMAIN startDict = {U235, PU239}
    /\ EdgesOf(U235) # {} /\ EdgesOf(PU239) # {}
    /\ U239 \in DOMAIN numberDensityDict
    /\ missingActiveNuclides # {}

(***************************************************************************)
(* Claims about the moment of the failure of the closure (SpecClosure).    *)
(***************************************************************************)
\* a call that failed with the missing groups left the closed composition
FailureKeepsClosure ==
    (ClosureDone /\ ret.raised = "ValueError")
        => numberDensityDict = ClosedComposition

\* C23: an edge without an active product never stops the worklist loop;
\* the MissingActiveNuclides error is raised only when the worklist is
\* empty, and the composition of the caller then holds, besides its own
\* entries, every resolvable reachable product (nothing is rolled back).
C23_MissingAfterTraversal ==
    /\ [][(pc = "loop" /\ missingActiveNuclides' # missingActiveNuclides)
             => pc' = "loop"]_vars
    /\ [][(pc = "loop" /\ ret'.raised = "ValueError") =>
             /\ difference = {}
             /\ missingActiveNuclides # {}
             /\ numberDensityDict' = numberDensityDict]_vars
    /\ []FailureKeepsClosure

\* PU239 with active {PU239, U235}: its transmutation to (U239, ZZ99) has no
\* active product, its decay to U235 comes after; the call has failed and
\* U235 is in the composition
C23_Witness ==
    /\ ClosureDone
    /\ ret.raised = "ValueError"
    /\ DOMAIN startDict = {PU239}
    /\ activeNuclides = {PU239, U235}
    /\ <<U239, ZZ99>> \in ret.groups
    /\ U235 \in DOMAIN numberDensityDict

(***************************************************************************)
(* SpecImpose: imposeBurnChain is called with burn data of which an entry  *)
(* may name no nuclide or hold a malformed record; the data that a call   *)
(* loads (yaml.load, after the test of the flag) is kept in ret.burnData.  *)
(***************************************************************************)
ImposeBurnChainLoaded(burnData) ==
    /\ \E r \in {imposeBurnChain(_burnChainImposed, byName, nucHeap, burnData)} :
          /\ _burnChainImposed' = r.imposed
          /\ nucHeap' = r.nh
          /\ ret' = [NoRet EXCEPT !.op = "imposeBurnChain",
                        !.raised = r.raised, !.warned = r.warned,
                        !.burnData = IF r.warned THEN <<>> ELSE burnData]
    /\ UNCHANGED <<elemHeap, chart, instances, byName, byDBName, byLabel,
                   byMccId, byMcnpId, byAAAZZZSId>>
    /\ UNCHANGED closureVars

\* burn information: well formed, a record with two burn types, and a
\* record of an undefined burn type after a well-formed one
ImposeInfos ==
    {<< <<Item(TRANSMUTATION, <<PU239>>, 0)>>, <<Item(DECAY, <<U235>>, 0)>> >>,
     << <<Item(DECAY, <<U239>>, 0)>> >>,
     << <<Item(TRANSMUTATION, <<PU239>>, 0), Item(DECAY, <<U235>>, 0)>> >>,
     << <<Item(TRANSMUTATION, <<U239>>, 0)>>, <<Item("fission", <<>>, 0)>> >>}

ImposeDatas ==
    UNION {{d \in [1..k -> [nucName : BurnNames, burnInfo : ImposeInfos]] :
               \A i, j \in 1..k : i # j => d[i].nucName # d[j].nucName} :
           k \in 0..MaxBurnNuclides}

NextImpose == \E burnData \in ImposeDatas : ImposeBurnChainLoaded(burnData)

SpecImpose == InitBurn /\ [][NextImpose]_vars

(***************************************************************************)
(* Claims about a failing imposeBurnChain (SpecImpose).                    *)
(***************************************************************************)
\* the record holds one burn type, and it is a defined one
WellFormedRecord(category) ==
    /\ Len(category) = 1
    /\ category[1].key \in {TRANSMUTATION, DECAY, SPONTANEOUS_FISSION}

\* the entry names a nuclide and all its records are well formed
WellFormedEntry(entry) ==
    /\ entry.nucName \in DOMAIN byName
    /\ \A k \in 1..Len(entry.burnInfo) : WellFormedRecord(entry.burnInfo[k])

\* the number of records of the burn type in the burn information
RECURSIVE CountOf(_, _, _)
CountOf(key, burnInfo, i) ==
    IF i > Len(burnInfo) THEN 0
    ELSE (IF burnInfo[i][1].key = key THEN 1 ELSE 0)
             + CountOf(key, burnInfo, i + 1)

\* the nuclide has the edges of the entry
HasEdgesOf(nuc, entry) ==
    /\ Len(nuc.trans) = CountOf(TRANSMUTATION, entry.burnInfo, 1)
    /\ Len(nuc.decays) = CountOf(DECAY, entry.burnInfo, 1)

\* the entries of the loaded data before the first that is not well formed
\* are applied: their nuclides have their edges
AppliedBeforeFailure(burnData, nh) ==
    \A i \in 1..Len(burnData) :
        (\A j \in 1..i : WellFormedEntry(burnData[j]))
            => HasEdgesOf(nh[byName[burnData[i].nucName]], burnData[i])

\* C24: the first imposeBurnChain sets the flag before it loads the burn
\* data: when it raises partway (a name that is no key of byName, or a
\* malformed record), the nuclides of the entries before the failure keep
\* their new edges and the flag stays set; every later call is skipped
\* (warning, no exception, no nuclide changed, nothing loaded), so the rest
\* of the burn data is never applied.
C24_FailedImpositionStays ==
    /\ [][(~_burnChainImposed /\ ret'.op = "imposeBurnChain") =>
             /\ _burnChainImposed'
             /\ ret'.raised # ""
                   <=> \E i \in 1..Len(ret'.burnData) :
                           ~WellFormedEntry(ret'.burnData[i])
             /\ AppliedBeforeFailure(ret'.burnData, nucHeap')]_vars
    /\ [][(_burnChainImposed /\ ret'.op = "imposeBurnChain") =>
             /\ _burnChainImposed'
             /\ nucHeap' = nucHeap
             /\ ret'.raised = ""
             /\ ret'.warned
             /\ ret'.burnData = <<>>]_vars

\* the first call has raised at its second entry, which names no nuclide,
\* after it gave U235 its edges; the flag is set
C24_Witness ==
    /\ ret.op = "imposeBurnChain"
    /\ ret.raised = "KeyError"
    /\ Len(ret.burnData) = 2
    /\ ret.burnData[1].nucName = U235
    /\ ret.burnData[2].nucName = ZZ99
    /\ nucHeap[byName[U235]].trans # <<>>
    /\ _burnChainImposed

(***************************************************************************)
(* Claims about the objects of the Element registry (SpecBuild).           *)
(***************************************************************************)
\* C25: once a chart is constructed, every element that iterating its
\* Element registry yields is the object that byZ, byName and bySymbol
\* hold for its z, name and symbol, and every value of the three maps is
\* yielded by the iteration.
C25_ElementsSameObjects ==
    chart.built =>
        LET reg == chart.elements
        IN /\ \A e \in reg._elements :
                 /\ reg.byZ[elemHeap[e].z] = e
                 /\ reg.byName[elemHeap[e].name] = e
                 /\ reg.bySymbol[elemHeap[e].symbol] = e
           /\ \A k \in DOMAIN reg.byZ : reg.byZ[k] \in reg._elements
           /\ \A k \in DOMAIN reg.byName : reg.byName[k] \in reg._elements
           /\ \A k \in DOMAIN reg.bySymbol : reg.bySymbol[k] \in reg._elements

====
